---- MODULE Spec2Model ----
(***************************************************************************)
(* Amount.svelte: the amount field of the transfer form.                   *)
(*                                                                         *)
(* Text is a sequence of one-character strings.  An Effect Option is a     *)
(* sequence of length 0 (none) or 1 (some); a nullable value likewise.     *)
(***************************************************************************)
EXTENDS Integers, Sequences, FiniteSets, TLC

\* ------------------------------------------------------------------ bounds
MaxLen == 3          \* longest text an insertion may produce
MaxDecimals == 1     \* largest decimals of a token the form selects in Spec
MaxUnitDecimals == 2 \* largest decimals of a token drawn by SpecMax
MaxBalance == 4100   \* largest raw balance drawn by SpecMax
MaxShownBalance == 250 \* largest raw balance drawn by SpecBalance

\* ------------------------------------------------------------ option, text
None == << >>
Some(x) == << x >>
isSome(o) == Len(o) = 1
isNone(o) == Len(o) = 0

Digits == {"0", "1", "2", "3", "4", "5", "6", "7", "8", "9"}
DigitChars == <<"0", "1", "2", "3", "4", "5", "6", "7", "8", "9">>

\* String.prototype.includes for a one-character needle
includes(s, c) == \E i \in 1..Len(s) : s[i] = c

\* String.prototype.startsWith
startsWith(s, p) == Len(s) >= Len(p) /\ SubSeq(s, 1, Len(p)) = p

\* index of the n-th occurrence of c in s, Len(s)+1 when there is none
RECURSIVE indexFrom(_, _, _)
indexFrom(s, c, i) ==
  IF i > Len(s) THEN Len(s) + 1
  ELSE IF s[i] = c THEN i ELSE indexFrom(s, c, i + 1)

\* s.split(c)[1] for a text s that includes c: the piece between the first
\* occurrence of c and the next one (or the end)
splitSecond(s, c) ==
  LET first == indexFrom(s, c, 1)
      next == indexFrom(s, c, first + 1)
  IN SubSeq(s, first + 1, next - 1)

\* /^\d*[.,]?\d*$/.test(s): digits, an optional single separator, digits
validShapeRegex(s) ==
  \E i \in 0..Len(s) :
    \E j \in {k \in {i, i + 1} : k <= Len(s)} :
      /\ \A k \in 1..i : s[k] \in Digits
      /\ \A k \in (i + 1)..j : s[k] \in {".", ","}
      /\ \A k \in (j + 1)..Len(s) : s[k] \in Digits

\* ------------------------------------------------------------- formatUnits
RECURSIVE BigIntToString(_)
BigIntToString(n) ==
  IF n < 10 THEN <<DigitChars[n + 1]>>
  ELSE Append(BigIntToString(n \div 10), DigitChars[(n % 10) + 1])

RECURSIVE padStart(_, _, _)
padStart(s, n, c) == IF Len(s) >= n THEN s ELSE padStart(<<c>> \o s, n, c)

\* fraction.replace(/(0+)$/, "")
RECURSIVE trimTrailingZeroes(_)
trimTrailingZeroes(s) ==
  IF s # << >> /\ s[Len(s)] = "0" THEN trimTrailingZeroes(SubSeq(s, 1, Len(s) - 1))
  ELSE s

\* a conversion that does not pad the digits to decimals places
formatUnitsWithoutPad(value, decimals) ==
  LET display == BigIntToString(value)
      cut == IF Len(display) > decimals THEN Len(display) - decimals ELSE 0
      integer == SubSeq(display, 1, cut)
      fraction == trimTrailingZeroes(SubSeq(display, cut + 1, Len(display)))
  IN (IF integer = << >> THEN <<"0">> ELSE integer)
       \o (IF fraction = << >> THEN << >> ELSE <<".">> \o fraction)

\* a conversion that shifts the point one place too far
formatUnitsOneMorePlace(value, decimals) ==
  LET display == padStart(BigIntToString(value), decimals + 1, "0")
      integer == SubSeq(display, 1, Len(display) - (decimals + 1))
      fraction == trimTrailingZeroes(
                    SubSeq(display, Len(display) - decimals, Len(display)))
  IN (IF integer = << >> THEN <<"0">> ELSE integer)
       \o (IF fraction = << >> THEN << >> ELSE <<".">> \o fraction)

\* viem formatUnits(value, decimals) for value >= 0
formatUnits(value, decimals) ==
  LET display == padStart(BigIntToString(value), decimals, "0")
      integer == SubSeq(display, 1, Len(display) - decimals)
      fraction == trimTrailingZeroes(
                    SubSeq(display, Len(display) - decimals + 1, Len(display)))
  IN (IF integer = << >> THEN <<"0">> ELSE integer)
       \o (IF fraction = << >> THEN << >> ELSE <<".">> \o fraction)

\* -------------------------------------------------------------- parseUnits
DigitValue(c) == CHOOSE k \in 0..9 : DigitChars[k + 1] = c

RECURSIVE StringToBigInt(_)
StringToBigInt(s) ==
  IF s = << >> THEN 0
  ELSE 10 * StringToBigInt(SubSeq(s, 1, Len(s) - 1)) + DigitValue(s[Len(s)])

RECURSIVE padEnd(_, _, _)
padEnd(s, n, c) == IF Len(s) >= n THEN s ELSE padEnd(Append(s, c), n, c)

\* the base units of a display amount with a "." and at most decimals
\* fractional digits: the decimal point shifted right by decimals places
parseUnits(s, decimals) ==
  LET dot == indexFrom(s, ".", 1)
      integer == SubSeq(s, 1, dot - 1)
      fraction == SubSeq(s, dot + 1, Len(s))
  IN StringToBigInt(integer \o padEnd(fraction, decimals, "0"))

\* ------------------------------------------------------------------- state
VARIABLES
  value,             \* text of the <input id="amount"> element
  amount,            \* transferData.raw.amount
  sourceChain,       \* transferData.sourceChain: Option of universal_chain_id
  baseToken,         \* transferData.baseToken: Option of [decimals, denom]
  baseTokenBalance,  \* transferData.baseTokenBalance: Option of [balance: Option]
  lastEvent,         \* the event the component handled last, and its outcome
  rawSource,         \* transferData.raw.source is set (truthy)
  rawAsset,          \* transferData.raw.asset is set (truthy)
  disabled           \* the disabled prop

vars == <<value, amount, sourceChain, baseToken, baseTokenBalance, lastEvent,
          rawSource, rawAsset, disabled>>


\* ------------------------------------------------------------ input domain
ChainIds == {"babylon.bbn-1", "other-chain"}
Denoms == {"ubbn", "other-denom"}     \* "ubbn" stands for toHex("ubbn")
DecimalsUpTo(n) == {None} \cup {Some(d) : d \in 0..n}
\* the tokens, balances and chains the form moves between in Spec
Tokens == [decimals : DecimalsUpTo(MaxDecimals), denom : {"ubbn"}]
Balances == {11}
BalanceRecords == {[balance |-> None]} \cup {[balance |-> Some(b)] : b \in Balances}

Keys == {"0", "1", ".", ",", "x"}
Pasted == {<<".", "1">>}
DeleteInputTypes == {"deleteContentBackward", "deleteContentForward"}
\* the (inputType, data) pairs of the beforeinput events that are not deletions
InsertEdits ==
  {<<"insertText", Some(<<k>>)>> : k \in Keys}
    \cup {<<"insertFromPaste", Some(p)>> : p \in Pasted}
    \cup {<<"insertLineBreak", None>>}
\* the caret positions of a text, and the selection of all of it
Selections(s) == {<<i, i>> : i \in 0..Len(s)} \cup {<<0, Len(s)>>}

NoEvent ==
  [kind |-> "none", inputType |-> "", data |-> None,
   defaultPrevented |-> FALSE, inputFired |-> FALSE]
EnvEvent == [NoEvent EXCEPT !.kind = "env"]

\* ----------------------------------------------------------- onbeforeinput
\* value + (data ?? "")
proposedText(v, data) == v \o (IF isSome(data) THEN data[1] ELSE << >>)

\* pipe(baseToken, flatMap(fromNullable(representations[0]?.decimals)), getOrElse(0))
maxDecimalsOf(token) ==
  IF isSome(token) /\ isSome(token[1].decimals) THEN token[1].decimals[1] ELSE 0

\* a dot branch that measures the piece before the dot
validDecimalsDotTestsIntegerPart(proposed, maxDecimals) ==
  ~includes(proposed, ".")
    \/ indexFrom(proposed, ".", 1) - 1 <= maxDecimals

validDecimalsDot(proposed, maxDecimals) ==
  ~includes(proposed, ".") \/ Len(splitSecond(proposed, ".")) <= maxDecimals

\* a comma branch that tests the dot again
validDecimalsCommaTestsDot(proposed, maxDecimals) ==
  ~includes(proposed, ".") \/ Len(splitSecond(proposed, ".")) <= maxDecimals

validDecimalsComma(proposed, maxDecimals) ==
  ~includes(proposed, ",") \/ Len(splitSecond(proposed, ",")) <= maxDecimals

\* inputType.startsWith("delete"), over the input types of the model
isDelete(inputType) == inputType \in DeleteInputTypes

noDuplicateLeadingZeroes(proposed) == ~startsWith(proposed, <<"0", "0">>)

\* a guard without the deletion override
allowWithoutDeleteOverride(inputType, data, v, maxDecimals) ==
  LET proposed == proposedText(v, data)
  IN /\ validDecimalsComma(proposed, maxDecimals)
     /\ validDecimalsDot(proposed, maxDecimals)
     /\ validShapeRegex(proposed)
     /\ noDuplicateLeadingZeroes(proposed)

allow(inputType, data, v, maxDecimals) ==
  LET proposed == proposedText(v, data)
      validDecimals == validDecimalsComma(proposed, maxDecimals)
                         /\ validDecimalsDot(proposed, maxDecimals)
  IN isDelete(inputType)
       \/ (validDecimals /\ validShapeRegex(proposed) /\ noDuplicateLeadingZeroes(proposed))

\* a handler that never prevents the default action
neverPreventDefault(allowed) == FALSE

\* if (!allow) event.preventDefault()
preventDefault(allowed) == ~allowed

\* ------------------------------------------------- updateField and oninput
StringArg(s) == [isEvent |-> FALSE, text |-> s]
InputEventOn(v) == [isEvent |-> TRUE, target |-> v]

\* transferData.raw.updateField("amount", valueOrEvent): the new raw.amount
updateField(valueOrEvent) ==
  IF valueOrEvent.isEvent THEN valueOrEvent.target ELSE valueOrEvent.text

\* an input handler that leaves the form alone
oninputKeepsAmount(event, amt) == amt

\* oninput={(event) => transferData.raw.updateField("amount", event)}
oninput(event, amt) == updateField(event)

\* --------------------------------------------- the host's default actions
\* the text after the default action of an insertion at the selection [s, e)
insertCommit(v, data, s, e) == SubSeq(v, 1, s) \o data[1] \o SubSeq(v, e + 1, Len(v))

\* the range [lo, hi) a deletion removes at the selection [s, e)
deleteRange(inputType, v, s, e) ==
  IF s < e THEN <<s, e>>
  ELSE IF inputType = "deleteContentBackward"
    THEN (IF s > 0 THEN <<s - 1, s>> ELSE <<s, s>>)
    ELSE (IF s < Len(v) THEN <<s, s + 1>> ELSE <<s, s>>)

deleteCommit(inputType, v, s, e) ==
  LET r == deleteRange(inputType, v, s, e)
  IN SubSeq(v, 1, r[1]) \o SubSeq(v, r[2] + 1, Len(v))

\* ------------------------------------------------------------ setMaxAmount
\* a reserve of 2 units in place of 20
BABY_SUB_AMOUNT_OfTwo(decimals) == 2 * (10 ^ decimals)

BABY_SUB_AMOUNT(decimals) == 20 * (10 ^ decimals)

\* baseToken.representations[0]?.decimals ?? 0
decimalsOf(token) == IF isSome(token.decimals) THEN token.decimals[1] ELSE 0

isUbbn(chain, token) == chain = "babylon.bbn-1" /\ token.denom = "ubbn"

\* a reserve withheld from every asset
maxUsableOfAnyAsset(rawBalance, decimals, ubbn) ==
  IF rawBalance > BABY_SUB_AMOUNT(decimals)
    THEN rawBalance - BABY_SUB_AMOUNT(decimals)
    ELSE rawBalance

\* a reserve withheld from a balance equal to it
maxUsableFromReserveUp(rawBalance, decimals, ubbn) ==
  IF ubbn /\ rawBalance >= BABY_SUB_AMOUNT(decimals)
    THEN rawBalance - BABY_SUB_AMOUNT(decimals)
    ELSE rawBalance

maxUsable(rawBalance, decimals, ubbn) ==
  IF ubbn /\ rawBalance > BABY_SUB_AMOUNT(decimals)
    THEN rawBalance - BABY_SUB_AMOUNT(decimals)
    ELSE rawBalance

formattedAmount(rawBalance, decimals, ubbn) ==
  formatUnits(maxUsable(rawBalance, decimals, ubbn), decimals)

\* a max action that writes "0" while the balance value is unresolved
maxAmountTextZeroWhenUnresolved(token, balance, chain) ==
  IF isNone(token) THEN None
  ELSE IF isNone(balance) THEN None
  ELSE IF isNone(balance[1].balance) THEN Some(<<"0">>)
  ELSE IF isNone(chain) THEN None
  ELSE Some(formattedAmount(balance[1].balance[1], decimalsOf(token[1]),
                            isUbbn(chain[1], token[1])))

\* setMaxAmount up to formattedAmount: none after one of the four early
\* returns, else the text to write
maxAmountText(token, balance, chain) ==
  IF isNone(token) THEN None
  ELSE IF isNone(balance) THEN None
  ELSE IF isNone(balance[1].balance) THEN None
  ELSE IF isNone(chain) THEN None
  ELSE Some(formattedAmount(balance[1].balance[1], decimalsOf(token[1]),
                            isUbbn(chain[1], token[1])))

\* the derived displayBalance
displayBalance(chain, token, balance) ==
  IF isSome(chain) /\ isSome(token) /\ isSome(balance) /\ isSome(balance[1].balance)
    THEN formatUnits(balance[1].balance[1], decimalsOf(token[1]))
    ELSE << >>

\* ------------------------------------------------------------- the markup
\* a balance mark-up that does not wait for the balance value
allDataReadyWithoutBalanceValue(chain, token, balance) ==
  isSome(chain) /\ isSome(token) /\ isSome(balance)

allDataReadyForBalance(chain, token, balance) ==
  /\ isSome(chain)
  /\ isSome(token)
  /\ isSome(balance)
  /\ isSome(balance[1].balance)

ShowZero == [kind |-> "zero", text |-> <<"0">>]
ShowSkeleton == [kind |-> "skeleton", text |-> << >>]
ShowText(t) == [kind |-> "text", text |-> t]

\* what follows BALANCE: in the mark-up
balanceMarkup(source, asset, chain, token, balance) ==
  IF ~source \/ ~asset THEN ShowZero
  ELSE IF ~allDataReadyForBalance(chain, token, balance) THEN ShowSkeleton
  ELSE ShowText(displayBalance(chain, token, balance))

\* disabled={!transferData.raw.asset || disabled}
inputDisabled(asset, disabledProp) == ~asset \/ disabledProp

\* ----------------------------------------------------------------- actions
Init ==
  /\ value = << >>
  /\ amount = << >>
  /\ sourceChain = None
  /\ baseToken = None
  /\ baseTokenBalance = None
  /\ lastEvent = NoEvent
  /\ rawSource = FALSE
  /\ rawAsset = FALSE
  /\ disabled \in BOOLEAN

\* a beforeinput event of an insertion, and the input event that follows it
Insert(inputType, data, s, e) ==
  LET prevented == preventDefault(allow(inputType, data, value, maxDecimalsOf(baseToken)))
      fired == ~prevented /\ isSome(data)
      committed == IF fired THEN insertCommit(value, data, s, e) ELSE value
  IN /\ Len(committed) <= MaxLen
     /\ value' = committed
     /\ amount' = IF fired THEN oninput(InputEventOn(committed), amount) ELSE amount
     /\ lastEvent' = [kind |-> "beforeinput", inputType |-> inputType, data |-> data,
                      defaultPrevented |-> prevented, inputFired |-> fired]
     /\ UNCHANGED <<sourceChain, baseToken, baseTokenBalance, rawSource, rawAsset, disabled>>

\* a beforeinput event of a deletion, and the input event that follows it
Delete(inputType, s, e) ==
  LET prevented == preventDefault(allow(inputType, None, value, maxDecimalsOf(baseToken)))
      committed == IF prevented THEN value ELSE deleteCommit(inputType, value, s, e)
      fired == ~prevented /\ committed # value
  IN /\ value' = committed
     /\ amount' = IF fired THEN oninput(InputEventOn(committed), amount) ELSE amount
     /\ lastEvent' = [kind |-> "beforeinput", inputType |-> inputType, data |-> None,
                      defaultPrevented |-> prevented, inputFired |-> fired]
     /\ UNCHANGED <<sourceChain, baseToken, baseTokenBalance, rawSource, rawAsset, disabled>>

TypeInsert ==
  /\ ~inputDisabled(rawAsset, disabled)
  /\ \E edit \in InsertEdits : \E sel \in Selections(value) :
       Insert(edit[1], edit[2], sel[1], sel[2])

TypeDelete ==
  /\ ~inputDisabled(rawAsset, disabled)
  /\ \E inputType \in DeleteInputTypes : \E sel \in Selections(value) :
       Delete(inputType, sel[1], sel[2])

\* a click on MAX
setMaxAmount ==
  /\ IF isSome(maxAmountText(baseToken, baseTokenBalance, sourceChain))
       THEN LET formatted == maxAmountText(baseToken, baseTokenBalance, sourceChain)[1]
                stored == updateField(StringArg(formatted))
            IN /\ value' = formatted
               /\ amount' = oninput(InputEventOn(formatted), stored)
               /\ lastEvent' = [NoEvent EXCEPT !.kind = "click", !.inputFired = TRUE]
       ELSE /\ UNCHANGED <<value, amount>>
            /\ lastEvent' = [NoEvent EXCEPT !.kind = "click"]
  /\ UNCHANGED <<sourceChain, baseToken, baseTokenBalance, rawSource, rawAsset, disabled>>

\* the form's derived state changes under the component; the source chain is
\* looked up from raw.source and the base token from raw.asset
SetSourceChain ==
  /\ \E c \in {None} \cup {Some(id) : id \in ChainIds} :
       /\ isSome(c) => rawSource
       /\ sourceChain' = c
  /\ lastEvent' = EnvEvent
  /\ UNCHANGED <<value, amount, baseToken, baseTokenBalance, rawSource, rawAsset, disabled>>

SetBaseToken ==
  /\ \E t \in {None} \cup {Some(tok) : tok \in Tokens} :
       /\ isSome(t) => rawAsset
       /\ baseToken' = t
  /\ lastEvent' = EnvEvent
  /\ UNCHANGED <<value, amount, sourceChain, baseTokenBalance, rawSource, rawAsset, disabled>>

\* the user selects or clears the source chain of the form
SelectSource ==
  /\ rawSource' = ~rawSource
  /\ sourceChain' = None
  /\ lastEvent' = EnvEvent
  /\ UNCHANGED <<value, amount, baseToken, baseTokenBalance, rawAsset, disabled>>

\* the user selects or clears the asset of the form
SelectAsset ==
  /\ rawAsset' = ~rawAsset
  /\ baseToken' = None
  /\ lastEvent' = EnvEvent
  /\ UNCHANGED <<value, amount, sourceChain, baseTokenBalance, rawSource, disabled>>

SetBaseTokenBalance ==
  /\ \E b \in {None} \cup {Some(r) : r \in BalanceRecords} : baseTokenBalance' = b
  /\ lastEvent' = EnvEvent
  /\ UNCHANGED <<value, amount, sourceChain, baseToken, rawSource, rawAsset, disabled>>

Next ==
  \/ TypeInsert
  \/ TypeDelete
  \/ setMaxAmount
  \/ SetSourceChain
  \/ SetBaseToken
  \/ SetBaseTokenBalance
  \/ SelectSource
  \/ SelectAsset

Spec == Init /\ [][Next]_vars

\* ------------------------------------------- the max action on any balance
InitMax ==
  /\ value = << >>
  /\ amount = << >>
  /\ sourceChain \in {Some(id) : id \in ChainIds}
  /\ baseToken \in {Some(tok) : tok \in [decimals : DecimalsUpTo(MaxUnitDecimals),
                                          denom : Denoms]}
  /\ baseTokenBalance \in {Some([balance |-> Some(b)]) : b \in 0..MaxBalance}
  /\ lastEvent = NoEvent
  /\ rawSource = TRUE
  /\ rawAsset = TRUE
  /\ disabled = FALSE

NextMax == setMaxAmount

SpecMax == InitMax /\ [][NextMax]_vars

\* ------------------------------------- the balance display on any form data
InitBalance ==
  /\ value = << >>
  /\ amount = << >>
  /\ lastEvent = NoEvent
  /\ disabled = FALSE
  /\ rawSource \in BOOLEAN
  /\ rawAsset \in BOOLEAN
  /\ sourceChain \in {None} \cup {Some(id) : id \in ChainIds}
  /\ isSome(sourceChain) => rawSource
  /\ baseToken \in {None} \cup {Some(tok) : tok \in [decimals : DecimalsUpTo(MaxUnitDecimals),
                                                       denom : Denoms]}
  /\ isSome(baseToken) => rawAsset
  /\ baseTokenBalance \in {None, Some([balance |-> None])}
                          \cup {Some([balance |-> Some(b)]) : b \in 0..MaxShownBalance}

NextBalance ==
  \/ SelectSource
  \/ SelectAsset
  \/ setMaxAmount

SpecBalance == InitBalance /\ [][NextBalance]_vars

\* ------------------------------------------------- the vocabulary of claims
Separators == {".", ","}

\* s fully matches ^\d*[.,]?\d*$: only digits and separators, one separator at most
MatchesShape(s) ==
  /\ \A i \in 1..Len(s) : s[i] \in Digits \cup Separators
  /\ Cardinality({i \in 1..Len(s) : s[i] \in Separators}) <= 1

\* the length of the text after the first c of s, 0 when s has no c
LengthAfterFirst(s, c) ==
  LET at == {i \in 1..Len(s) : s[i] = c}
  IN IF at = {} THEN 0 ELSE Len(s) - (CHOOSE i \in at : \A j \in at : i <= j)

StartsWithDoubleZero(s) == Len(s) >= 2 /\ s[1] = "0" /\ s[2] = "0"

WellFormed(s, d) ==
  /\ MatchesShape(s)
  /\ LengthAfterFirst(s, ".") <= d
  /\ LengthAfterFirst(s, ",") <= d
  /\ ~StartsWithDoubleZero(s)

IsInsertEvent(ev) == ev.kind = "beforeinput" /\ ev.inputType \notin DeleteInputTypes
IsDeleteEvent(ev) == ev.kind = "beforeinput" /\ ev.inputType \in DeleteInputTypes
MaxClicked == lastEvent.kind = "click" /\ lastEvent.inputFired

\* C1: the field text after every edit the guard accepts matches the shape,
\* has at most maxDecimals fractional digits and does not start with "00".
\* The guard validates value + data, and the host inserts data at the caret.
C1_AcceptedTextWellFormed ==
  (lastEvent.kind = "beforeinput" /\ ~lastEvent.defaultPrevented)
    => WellFormed(value, maxDecimalsOf(baseToken))

\* C2: an insert edit is accepted exactly when currentText + insertedFragment
\* matches the shape, has at most maxDecimals characters after the first "."
\* and after the first ",", and does not start with "00"; with the three
\* examples of the claim.
C2_Examples ==
  /\ allow("insertText", Some(<<".">>), <<"1">>, 2)
  /\ ~allow("insertText", Some(<<"4">>), <<"1", ".", "2", "3">>, 2)
  /\ \A d \in 0..MaxDecimals : ~allow("insertText", Some(<<"0">>), <<"0">>, d)

C2_InsertAcceptedIff ==
  /\ C2_Examples
  /\ [][IsInsertEvent(lastEvent') =>
          (~lastEvent'.defaultPrevented
             <=> WellFormed(proposedText(value, lastEvent'.data),
                            maxDecimalsOf(baseToken)))]_vars

\* an insert of "0" after "0" was rejected
C2_Witness ==
  /\ IsInsertEvent(lastEvent)
  /\ lastEvent.defaultPrevented
  /\ lastEvent.data = Some(<<"0">>)
  /\ value = <<"0">>

\* the field can be emptied by backward deletions at the end of the text,
\* each of them accepted
RECURSIVE ClearableByDeletes(_, _)
ClearableByDeletes(v, d) ==
  \/ v = << >>
  \/ /\ allow("deleteContentBackward", None, v, d)
     /\ ClearableByDeletes(
          deleteCommit("deleteContentBackward", v, Len(v), Len(v)), d)

\* C3: every deletion is accepted whatever the text, the result and
\* maxDecimals, so deletions alone empty the field from every reachable text.
C3_DeletionsAccepted ==
  /\ IsDeleteEvent(lastEvent) => ~lastEvent.defaultPrevented
  /\ ClearableByDeletes(value, maxDecimalsOf(baseToken))

\* a deletion was accepted whose result starts with "00"
C3_Witness ==
  /\ IsDeleteEvent(lastEvent)
  /\ ~lastEvent.defaultPrevented
  /\ lastEvent.inputFired
  /\ StartsWithDoubleZero(value)


\* ---------------------------------------------- the inputs of a max action
\* read only where the action has acted (MaxClicked): nothing has changed
\* the form's data since
RawBalance == baseTokenBalance[1].balance[1]
Decimals == decimalsOf(baseToken[1])
Native == isUbbn(sourceChain[1], baseToken[1])
Reserve == 20 * (10 ^ Decimals)

\* C4: the max action formats usable = (native and B > R) ? B - R : B, with
\* 0 <= usable <= B; 25*10^d native gives "5", 10*10^d native gives "10", and
\* a non-native balance is formatted whole.
C4_MaxUsable ==
  MaxClicked =>
    LET usable == IF Native /\ RawBalance > Reserve
                    THEN RawBalance - Reserve ELSE RawBalance
    IN /\ value = formatUnits(usable, Decimals)
       /\ 0 <= usable /\ usable <= RawBalance
       /\ (Native /\ RawBalance = 25 * (10 ^ Decimals)) => value = <<"5">>
       /\ (Native /\ RawBalance = 10 * (10 ^ Decimals)) => value = <<"1", "0">>
       /\ ~Native => value = formatUnits(RawBalance, Decimals)

\* the max action on a native balance of 25 units wrote "5"
C4_Witness ==
  /\ MaxClicked
  /\ Native
  /\ RawBalance = 25 * (10 ^ Decimals)
  /\ value = <<"5">>

\* C5 as stated: after the max action on the native asset the user keeps at
\* least the reserve, rawBalance - usable >= reserve, for every balance: the
\* text written is the balance less some amount withheld >= reserve.
C5_ReserveAlwaysWithheld ==
  (MaxClicked /\ Native) =>
    \E withheld \in Reserve..RawBalance :
      value = formatUnits(RawBalance - withheld, Decimals)

\* C5 amended: on the native asset the max action withholds exactly the
\* reserve from a balance above it, and nothing from a balance up to it.
C5_ReserveWithheldAboveReserve ==
  (MaxClicked /\ Native) =>
    \E withheld \in {0, Reserve} :
      /\ withheld = Reserve <=> RawBalance > Reserve
      /\ value = formatUnits(RawBalance - withheld, Decimals)

\* the max action on a native balance above the reserve
C5_Witness ==
  /\ MaxClicked
  /\ Native
  /\ RawBalance > Reserve
  /\ value = formatUnits(RawBalance - Reserve, Decimals)

\* the max amount computed again from the text the max action wrote
MaxAgain == formattedAmount(parseUnits(value, Decimals), Decimals, Native)

\* C6 as stated: converting the max text back to base units and computing
\* max again gives the same text, for every balance, decimals and flag.
C6_Idempotent == MaxClicked => MaxAgain = value

\* C6 amended: computing max again gives the same text unless the asset is
\* native and the balance exceeds twice the reserve; then it gives the
\* balance less twice the reserve.
C6_IdempotentUpToTwiceReserve ==
  MaxClicked =>
    IF Native /\ RawBalance > 2 * Reserve
      THEN MaxAgain = formatUnits(RawBalance - 2 * Reserve, Decimals)
      ELSE MaxAgain = value

\* the max action withheld the reserve and left no more than the reserve
C6_Witness ==
  /\ MaxClicked
  /\ Native
  /\ RawBalance > Reserve
  /\ RawBalance <= 2 * Reserve
  /\ MaxAgain = value

\* C7: the text of the max action and the displayed balance parse back, at
\* the same decimals, to the base units they were formatted from.
C7_RoundTrip ==
  MaxClicked =>
    /\ parseUnits(value, Decimals) = maxUsable(RawBalance, Decimals, Native)
    /\ parseUnits(displayBalance(sourceChain, baseToken, baseTokenBalance), Decimals)
         = RawBalance

\* the max action wrote a fraction with a zero after the point
C7_Witness ==
  /\ MaxClicked
  /\ Len(value) = 4
  /\ value[2] = "."
  /\ value[3] = "0"
  /\ parseUnits(value, Decimals) = RawBalance


\* no base token, no balance record, no balance value or no source chain
PrerequisiteMissing ==
  \/ isNone(baseToken)
  \/ isNone(baseTokenBalance)
  \/ (isSome(baseTokenBalance) /\ isNone(baseTokenBalance[1].balance))
  \/ isNone(sourceChain)

\* C8: a max action requested while a prerequisite is missing leaves the
\* field text and the form's amount as they were and dispatches no input event.
C8_MaxWithoutPrerequisiteIsNoOp ==
  [][(lastEvent'.kind = "click" /\ PrerequisiteMissing)
       => (value' = value /\ amount' = amount /\ ~lastEvent'.inputFired)]_vars

\* MAX was clicked on a filled field with only the source chain missing
C8_Witness ==
  /\ lastEvent.kind = "click"
  /\ ~lastEvent.inputFired
  /\ isNone(sourceChain)
  /\ isSome(baseToken)
  /\ isSome(baseTokenBalance)
  /\ isSome(baseTokenBalance[1].balance)
  /\ value # << >>
  /\ amount = value

\* C9: an insert edit whose proposed text is malformed, over-precise or
\* starts with "00" is vetoed: the field text and the form's amount stay as
\* they were and no input event follows.
C9_RejectedInsertChangesNothing ==
  [][(IsInsertEvent(lastEvent')
        /\ ~WellFormed(proposedText(value, lastEvent'.data), maxDecimalsOf(baseToken)))
       => /\ lastEvent'.defaultPrevented
          /\ ~lastEvent'.inputFired
          /\ value' = value
          /\ amount' = amount]_vars

\* a second fractional digit was vetoed at one decimal
C9_Witness ==
  /\ IsInsertEvent(lastEvent)
  /\ lastEvent.defaultPrevented
  /\ lastEvent.data = Some(<<"1">>)
  /\ maxDecimalsOf(baseToken) = 1
  /\ value = <<"1", ".", "1">>
  /\ amount = value

\* C10: after every event the form's amount is the field's text, and after
\* a max action both are the max text, as if it had been typed.
C10_AmountIsFieldText ==
  /\ amount = value
  /\ MaxClicked => amount = formattedAmount(RawBalance, Decimals, Native)

\* the max action wrote "1.1" into the field and the form
C10_Witness ==
  /\ MaxClicked
  /\ value = <<"1", ".", "1">>
  /\ amount = <<"1", ".", "1">>


\* C11: the field text starts with "00" only after a deletion: no accepted
\* insert leaves a text that starts with "00", and an insert into such a
\* text is rejected.
C11_DoubleZeroOnlyByDeletion ==
  (IsInsertEvent(lastEvent) /\ StartsWithDoubleZero(value))
    => lastEvent.defaultPrevented

\* the digits after the separator of a text, whichever separator it is
FractionLength(s) ==
  LET at == {i \in 1..Len(s) : s[i] \in Separators}
  IN IF at = {} THEN 0 ELSE Len(s) - (CHOOSE i \in at : \A j \in at : i <= j)

\* C12: with maxDecimals 0 no accepted insert leaves a text with a
\* fractional part.
C12_NoFractionAtZeroDecimals ==
  (IsInsertEvent(lastEvent) /\ ~lastEvent.defaultPrevented
     /\ maxDecimalsOf(baseToken) = 0)
    => FractionLength(value) = 0

\* a guard with one check on the one separator of the text
SingleSeparatorAllow(p, d) ==
  /\ MatchesShape(p)
  /\ FractionLength(p) <= d
  /\ ~StartsWithDoubleZero(p)

\* C13: on every insert into every reachable text the two parallel precision
\* checks decide as one check on the separator present, the check of the
\* absent separator holds, and a text with both "." and "," is rejected.
C13_DualCheckIsSingleCheck ==
  /\ \A edit \in InsertEdits :
       LET p == proposedText(value, edit[2])
           d == maxDecimalsOf(baseToken)
       IN /\ allow(edit[1], edit[2], value, d) <=> SingleSeparatorAllow(p, d)
          /\ MatchesShape(p) =>
               /\ (validDecimalsDot(p, d) /\ validDecimalsComma(p, d))
                    <=> FractionLength(p) <= d
               /\ ~includes(p, ".") => validDecimalsDot(p, d)
               /\ ~includes(p, ",") => validDecimalsComma(p, d)
          /\ (includes(p, ".") /\ includes(p, ",")) => ~allow(edit[1], edit[2], value, d)
  /\ (IsInsertEvent(lastEvent) /\ ~lastEvent.defaultPrevented)
       => ~(includes(value, ".") /\ includes(value, ","))

\* a fractional digit was accepted after a comma at one decimal
C13_Witness ==
  /\ IsInsertEvent(lastEvent)
  /\ ~lastEvent.defaultPrevented
  /\ lastEvent.data = Some(<<"1">>)
  /\ maxDecimalsOf(baseToken) = 1
  /\ value = <<"1", ",", "1">>


\* C15: the text the max action writes matches the shape, has at most the
\* asset's decimals after the point and does not start with "00": the guard
\* would have accepted it as an insert into the empty field.
C15_MaxTextPassesGuard ==
  MaxClicked =>
    /\ WellFormed(value, Decimals)
    /\ allow("insertFromPaste", Some(value), << >>, maxDecimalsOf(baseToken))

\* the max action wrote as many fractional digits as the asset has decimals
C15_Witness ==
  /\ MaxClicked
  /\ Decimals = MaxUnitDecimals
  /\ FractionLength(value) = MaxUnitDecimals

\* C16: the guard validates the text with the fragment appended, and the
\* text the host commits for an accepted insert, wherever the caret or the
\* selection is, is well formed too.
C16_CommittedInsertWellFormed ==
  [][(IsInsertEvent(lastEvent') /\ ~lastEvent'.defaultPrevented)
       => /\ WellFormed(proposedText(value, lastEvent'.data), maxDecimalsOf(baseToken))
          /\ WellFormed(value', maxDecimalsOf(baseToken))]_vars


\* what the component shows after BALANCE: in the current state
BalanceShown ==
  balanceMarkup(rawSource, rawAsset, sourceChain, baseToken, baseTokenBalance)

\* chain, token, balance record and balance value are all resolved
BalanceResolved ==
  /\ isSome(sourceChain)
  /\ isSome(baseToken)
  /\ isSome(baseTokenBalance)
  /\ isSome(baseTokenBalance[1].balance)

\* C14: the balance display is "0" without a source or an asset, a loading
\* placeholder with both selected and something unresolved, and otherwise
\* the raw balance at the asset's decimals with no reserve taken off; the
\* empty not-loaded text is never shown.
C14_BalanceDisplay ==
  /\ (~rawSource \/ ~rawAsset) => BalanceShown = ShowZero
  /\ (rawSource /\ rawAsset /\ ~BalanceResolved) => BalanceShown = ShowSkeleton
  /\ (rawSource /\ rawAsset /\ BalanceResolved)
       => BalanceShown = ShowText(formatUnits(RawBalance, Decimals))
  /\ BalanceShown.kind = "text" => (BalanceResolved /\ BalanceShown.text # << >>)

\* the whole native balance is shown next to a max text less the reserve
C14_Witness ==
  /\ MaxClicked
  /\ Native
  /\ RawBalance > Reserve
  /\ BalanceShown = ShowText(formatUnits(RawBalance, Decimals))
  /\ value = formatUnits(RawBalance - Reserve, Decimals)

\* C17: while the field is disabled (no asset selected, or the disabled
\* prop set) no typing and no click on MAX changes the form's amount.
C17_DisabledFieldKeepsAmount ==
  [][(inputDisabled(rawAsset, disabled) /\ lastEvent'.kind \in {"beforeinput", "click"})
       => amount' = amount]_vars

====
